---- MODULE Spec2Model ----
(***************************************************************************)
(* Level1 sources of polymer: the tabular source Level1_ASCII              *)
(* (src/level1_ascii.py) and the binary source Level1_MERIS                *)
(* (src/level1_meris.py).  A run constructs one Source from constructor    *)
(* arguments and a file, then calls blocks() (a Python generator, stepped  *)
(* with next()) and read_block() on it in any order.                       *)
(***************************************************************************)
EXTENDS Integers, Sequences, FiniteSets, TLC

VARIABLES
    args,       \* the constructor's arguments
    file,       \* the file's contents: CSV rows, or the product's rasters
    src,        \* the Source object, or the exception its construction raised
    prodPos,    \* read position of the epr product handle (self.prod)
    gen,        \* the generator objects returned by blocks()
    last,       \* the last direct read_block call and what it returned
    asked       \* the band list this caller asks for

vars == <<args, file, src, prodPos, gen, last, asked>>

-----------------------------------------------------------------------------
(* Bounds of the model *)

MaxRows == 4        \* height of a tabular source / lines of a product
MaxSquare == 2      \* square (ASCII) / scene width (MERIS)
MaxBlock == 3       \* blocksize

-----------------------------------------------------------------------------
(* Values *)

\* np.NaN.  A float that is not a number: every comparison with it is False.
NaN == -9999

isnan(v) == v = NaN

\* v < 0 on floats: False when v is NaN
LessThanZero(v) == (~ isnan(v)) /\ v < 0

\* an attribute that no statement has assigned
Unassigned == <<>>

\* a wavelength of n nm and f/131072 nm: floats of wavelengths are counted in
\* units of 2^-17 nm
Nanometres(n, f) == n * 131072 + f

\* float(band)
float(band) == Nanometres(band, 0)

\* dtype float32: between 256 and 512 nm it holds the multiples of 2^-15 nm,
\* and a value stored in it is rounded to the nearest one (to the even one of
\* two that are as near)
Float32(v) ==
    IF isnan(v) THEN NaN
    ELSE CASE v % 4 = 0 -> v
           [] v % 4 = 1 -> v - 1
           [] v % 4 = 3 -> v + 1
           [] OTHER -> IF (v - 2) % 8 = 0 THEN v - 2 ELSE v + 2

\* min and max of two integers
Min(a, b) == IF a <= b THEN a ELSE b
Max(a, b) == IF a >= b THEN a ELSE b

\* L2FLAGS of common.py
LAND == 1
L1_INVALID == 4

\* dtype uint16 keeps 16 bits
Uint16(n) == n % 65536

\* bit b (a power of two) of n
BitSet(n, b) == (n \div b) % 2 = 1

RECURSIVE BitOrFrom(_, _, _)
BitOrFrom(a, b, p) ==
    IF a = 0 /\ b = 0 THEN 0
    ELSE (IF a % 2 = 1 \/ b % 2 = 1 THEN p ELSE 0)
         + BitOrFrom(a \div 2, b \div 2, 2 * p)

\* a | b
BitOr(a, b) == BitOrFrom(a, b, 1)

-----------------------------------------------------------------------------
(* Bands *)

\* the bands stored in the extractions, in column order (first two of a list)
BANDS_MODIS == <<412, 443>>
BANDS_SEAWIFS == <<412, 443>>
BANDS_MERIS == <<412, 443>>
BANDS_VIIRS == <<410, 443>>

MerisSensors == {"MERIS", "MERIS_RR", "MERIS_FR"}

\* the keys of the sensor dictionary of __init__
KnownSensors == {"MERIS", "MERIS_RR", "MERIS_FR", "SeaWiFS", "MODIS", "VIIRS"}

DefaultBands(sensor) ==
    IF sensor \in MerisSensors THEN BANDS_MERIS
    ELSE IF sensor = "VIIRS" THEN BANDS_VIIRS
    ELSE IF sensor = "SeaWiFS" THEN BANDS_SEAWIFS
    ELSE BANDS_MODIS

\* headers_default, as the set of its keys
headers_default ==
    {"TOA", "LAT", "LON", "DATETIME", "DETECTOR_INDEX", "OZONE", "WIND",
     "SURFACE_PRESSURE", "SZA", "VZA", "RAA"}

\* a caller's dictionary that also names the absolute azimuths
headers_absolute == headers_default \cup {"SAA", "VAA"}

\* self.band_names: band -> position of its TOAR_{:02d} column
band_names(BANDS) == [b \in {BANDS[i] : i \in 1..Len(BANDS)} |->
                        CHOOSE i \in 1..Len(BANDS) : BANDS[i] = b]

-----------------------------------------------------------------------------
(* Calibration tables *)

\* the column 'E0_band{:d}'.format(i) or 'lam_band{:d}'.format(i)
ColumnName(prefix, i) == <<prefix, i>>

\* np.genfromtxt(sun_spectral_flux_rr.txt, names=True): column -> detector
\* index -> solar flux, in thousandths
sun_spectral_flux_rr ==
    [c \in {ColumnName("E0_band", i) : i \in 0..1} |->
        IF c[2] = 0 THEN <<1715, 1710>> ELSE <<1000, 980>>]

\* np.genfromtxt(sun_spectral_flux_fr.txt, names=True)
sun_spectral_flux_fr ==
    [c \in {ColumnName("E0_band", i) : i \in 0..1} |->
        IF c[2] = 0 THEN <<1716, 1711>> ELSE <<1001, 981>>]

\* np.genfromtxt(central_wavelen_rr.txt, names=True): column -> detector
\* index -> wavelength (412.5, 412.7; 442.5, 443.6)
central_wavelen_rr ==
    [c \in {ColumnName("lam_band", i) : i \in 0..1} |->
        IF c[2] = 0 THEN <<Nanometres(412, 65536), Nanometres(412, 91750)>>
        ELSE <<Nanometres(442, 65536), Nanometres(443, 78643)>>]

\* np.genfromtxt(central_wavelen_fr.txt, names=True)
central_wavelen_fr ==
    [c \in {ColumnName("lam_band", i) : i \in 0..1} |->
        IF c[2] = 0 THEN <<Nanometres(412, 65540), Nanometres(412, 91755)>>
        ELSE <<Nanometres(442, 65540), Nanometres(443, 78647)>>]

\* dict(map(lambda (i,b): (b, prefix.format(i)), enumerate(BANDS)))
ColumnNames(prefix, BANDS) ==
    [b \in {BANDS[i] : i \in 1..Len(BANDS)} |->
        ColumnName(prefix, (CHOOSE i \in 1..Len(BANDS) : BANDS[i] = b) - 1)]

\* self.F0_band_names and self.wav_band_names of Level1_ASCII
F0_band_names(BANDS) == ColumnNames("E0_band", BANDS)

wav_band_names(BANDS) == ColumnNames("lam_band", BANDS)

\* table[column][di] for an array di of detector indices (from 0)
Lookup(table, column, di) ==
    [r \in DOMAIN di |-> [c \in DOMAIN di[r] |-> table[column][di[r][c] + 1]]]

-----------------------------------------------------------------------------
(* File contents *)

\* what can be wrong with one CSV row
AsciiDefects == {"none", "latNaN", "raaNaN", "saaNaN", "toa1Neg", "toa2Neg", "toa1NaN"}

\* the l1_flags of one product pixel
MerisDefects == {"none", "land", "invalid", "landSuspect", "cosmetic"}

\* CSV row i (from 0): every column is tagged with the row it comes from
CsvRow(i, d) ==
    [LAT |-> IF d = "latNaN" THEN NaN ELSE 100 + i,
     LON |-> 200 + i,
     SZA |-> 30 + i,
     VZA |-> 40 + i,
     RAA |-> IF d = "raaNaN" THEN NaN ELSE 50 + i,
     SAA |-> IF d = "saaNaN" THEN NaN ELSE 200 + i,
     VAA |-> 170,
     OZONE |-> 300 + i,
     WIND |-> 5 + i,
     DETECTOR |-> i % 2,
     TOA |-> << IF d = "toa1NaN" THEN NaN ELSE IF d = "toa1Neg" THEN -1 - i ELSE 700 + i,
                IF d = "toa2Neg" THEN -1 - i ELSE 800 + i >>]

\* pixel (y, x) of a product (from 0)
ProductPixel(y, x, w, d) ==
    LET i == y * w + x IN
    [latitude |-> 100 + i,
     longitude |-> 200 + i,
     sun_zenith |-> 30 + i,
     view_zenith |-> 40 + i,
     sun_azimuth |-> 200 + i,
     view_azimuth |-> 170,
     ozone |-> 300 + i,
     detector_index |-> x % 2,
     Radiance |-> <<700 + i, 800 + i>>,
     l1_flags |-> CASE d = "land" -> {"LAND_OCEAN"}
                    [] d = "invalid" -> {"INVALID"}
                    [] d = "landSuspect" -> {"LAND_OCEAN", "SUSPECT"}
                    [] d = "cosmetic" -> {"COSMETIC"}
                    [] OTHER -> {}]

\* a CSV file of n rows
CsvFile(n, defects) ==
    [nrows |-> n, width |-> 0, bad |-> {},
     rows |-> [i \in 1..n |-> CsvRow(i - 1, defects[i])],
     raster |-> <<>>]

\* a product of n lines of w pixels; the lines in bad cannot be read
ProductFile(n, w, defects, bad) ==
    [nrows |-> n, width |-> w, bad |-> bad,
     rows |-> <<>>,
     raster |-> [y \in 1..n |-> [x \in 1..w |->
                    ProductPixel(y - 1, x - 1, w, defects[(y - 1) * w + x])]]]

NoDefects(n) == [i \in 1..n |-> "none"]

-----------------------------------------------------------------------------
(* Constructor arguments *)

\* the band lists callers ask for
BandLists == { <<412>>, <<443, 412>> }

AsciiArgs(sensor, BANDS, TOAR, headers, relaz, square, blocksize) ==
    [kind |-> "ascii", sensor |-> sensor, BANDS |-> BANDS, TOAR |-> TOAR,
     headers |-> headers, relative_azimuth |-> relaz,
     square |-> square, blocksize |-> blocksize, sline |-> 0, eline |-> -1]

MerisArgs(sline, eline, blocksize) ==
    [kind |-> "meris", sensor |-> "MERIS", BANDS |-> <<>>, TOAR |-> "radiance",
     headers |-> {}, relative_azimuth |-> FALSE,
     square |-> 1, blocksize |-> blocksize, sline |-> sline, eline |-> eline]

\* tabular sources of every geometry, well configured: files of h * sq rows
\* and files of some rows more
AsciiGeometryRuns ==
    { <<AsciiArgs("MODIS", <<>>, "radiance", headers_default, TRUE, c[1], c[2]),
        CsvFile(c[3] * c[1] + c[4], NoDefects(c[3] * c[1] + c[4])), <<443, 412>> >> :
        c \in { d \in (1..MaxSquare) \X (1..MaxBlock) \X (0..MaxRows) \X (0..MaxSquare) :
                  d[4] < d[1] } }

\* tabular sources of every configuration, over a one-row file
AsciiConfigRuns ==
    { <<AsciiArgs(c[1], c[2], c[3], c[4], c[5], 1, 1), CsvFile(1, NoDefects(1)), <<412>> >> :
        c \in {"MODIS", "MERIS", "OLCI", "None"} \X {<<>>, BANDS_MODIS}
              \X {"radiance", "reflectance", "irradiance"}
              \X {headers_default, headers_absolute} \X BOOLEAN }

\* tabular sources over a row of every content, or over two rows
AsciiContentRuns ==
    { <<AsciiArgs("MODIS", <<>>, "radiance", headers_absolute, c[1], 1, 1),
        CsvFile(Len(c[2]), c[2]), c[3] >> :
        c \in BOOLEAN
              \X ([{1} -> AsciiDefects] \cup [{1, 2} -> {"none", "raaNaN", "toa1Neg"}])
              \X BandLists }

\* tabular sources of sensors with and without tables per detector, with the
\* sensor's band list or the caller's, over two rows of different detectors
AsciiSmileRuns ==
    { <<AsciiArgs(c[1], c[2], "radiance", headers_default, TRUE, c[3], 1),
        CsvFile(2, NoDefects(2)), c[4] >> :
        c \in {"MERIS", "MERIS_FR", "SeaWiFS"} \X {<<>>, <<443, 412>>}
              \X {1, 2} \X BandLists }

\* binary sources of every sub-window, in or out of a product of
\* MaxRows - 1 lines
MerisWindowRuns ==
    { <<MerisArgs(c[1], c[2], c[3]),
        ProductFile(MaxRows - 1, MaxSquare, NoDefects((MaxRows - 1) * MaxSquare), {}),
        <<443, 412>> >> :
        c \in (0..MaxRows) \X (-2..MaxRows + 1) \X (1..MaxBlock) }

\* binary sources read whole, of every geometry, one line of which may be
\* unreadable
MerisFaultRuns ==
    { <<MerisArgs(0, -1, c[1]),
        ProductFile(c[2], c[3], NoDefects(c[2] * c[3]), c[4]), <<443, 412>> >> :
        c \in { d \in (1..MaxBlock) \X (0..MaxRows) \X (1..MaxSquare)
                      \X SUBSET (0..MaxRows - 1) :
                  /\ Cardinality(d[4]) <= 1
                  /\ d[4] \subseteq 0..(d[2] - 1) } }

\* binary sources over a pixel of every content, or over two pixels
MerisContentRuns ==
    { <<MerisArgs(0, -1, 1), ProductFile(Len(c[1]), 1, c[1], {}), c[2] >> :
        c \in ([{1} -> MerisDefects] \cup [{1, 2} -> {"none", "land", "landSuspect"}])
              \X BandLists }

Runs ==
    AsciiGeometryRuns \cup AsciiConfigRuns \cup AsciiContentRuns
    \cup AsciiSmileRuns
    \cup MerisWindowRuns \cup MerisFaultRuns \cup MerisContentRuns

-----------------------------------------------------------------------------
(* Construction *)

\* an exception leaves the constructor: no object is bound
Raised(kind, e) == [status |-> e, kind |-> kind]

\* the logical fields whose columns __init__ looks up in headers
RequiredHeaders(a) ==
    {"LAT", "LON", "DATETIME", "OZONE", "SURFACE_PRESSURE", "SZA", "VZA", "WIND"}
    \cup (IF a.relative_azimuth THEN {"RAA"} ELSE {"SAA", "VAA"})
    \cup (IF a.sensor \in MerisSensors THEN {"DETECTOR_INDEX"} ELSE {})

\* no check of the row count
SquareUnchecked(nrows, square) == TRUE

\* assert nrows % square == 0
SquareAsserted(nrows, square) == nrows % square = 0

\* Level1_ASCII.__init__
AsciiInit(a, f) ==
    IF a.BANDS = <<>> /\ a.sensor \notin KnownSensors
    THEN Raised("ascii", "KeyError")
    ELSE IF ~ (RequiredHeaders(a) \subseteq a.headers)
    THEN Raised("ascii", "KeyError")
    ELSE IF ~ SquareAsserted(f.nrows, a.square)
    THEN Raised("ascii", "AssertionError")
    ELSE
      LET BANDS == IF a.BANDS = <<>> THEN DefaultBands(a.sensor) ELSE a.BANDS
          height == f.nrows \div a.square
          smile == a.sensor \in MerisSensors
      IN  [status |-> "ok", kind |-> "ascii",
           sensor |-> a.sensor, TOAR |-> a.TOAR, headers |-> a.headers,
           relative_azimuth |-> a.relative_azimuth,
           band_names |-> band_names(BANDS),
           F0 |-> IF ~ smile THEN Unassigned
                  ELSE IF a.sensor = "MERIS_FR" THEN sun_spectral_flux_fr
                  ELSE sun_spectral_flux_rr,
           detector_wavelength |->
                  IF ~ smile THEN Unassigned
                  ELSE IF a.sensor = "MERIS_FR" THEN central_wavelen_fr
                  ELSE central_wavelen_rr,
           F0_band_names |-> IF smile THEN F0_band_names(BANDS) ELSE Unassigned,
           wav_band_names |-> IF smile THEN wav_band_names(BANDS) ELSE Unassigned,
           csv |-> f.rows,
           height |-> height, width |-> a.square,
           shape |-> <<height, a.square>>,
           blocksize |-> a.blocksize,
           sline |-> 0, eline |-> -1, totalheight |-> height]

\* self.height of Level1_MERIS.__init__
MerisHeight(totalheight, sline, eline) ==
    IF eline < 0 THEN totalheight - sline + eline + 1
    ELSE eline - sline

\* Level1_MERIS.__init__
MerisInit(a, f) ==
    LET height == MerisHeight(f.nrows, a.sline, a.eline)
    IN  [status |-> "ok", kind |-> "meris",
         sensor |-> "MERIS", TOAR |-> "radiance", headers |-> {},
         relative_azimuth |-> FALSE,
         band_names |-> band_names(BANDS_MERIS),
         F0 |-> sun_spectral_flux_rr,
         detector_wavelength |-> central_wavelen_rr,
         F0_band_names |-> [b \in {412, 443} |->
                              ColumnName("E0_band", IF b = 412 THEN 0 ELSE 1)],
         wav_band_names |-> [b \in {412, 443} |->
                              ColumnName("lam_band", IF b = 412 THEN 0 ELSE 1)],
         csv |-> <<>>,
         height |-> height, width |-> f.width,
         shape |-> <<height, f.width>>,
         blocksize |-> a.blocksize,
         sline |-> a.sline, eline |-> a.eline, totalheight |-> f.nrows]

-----------------------------------------------------------------------------
(* Arrays *)

\* seq[start:stop] of Python, for start, stop >= 0
Slice(seq, start, stop) ==
    LET lo == Min(start, Len(seq))
        hi == Min(stop, Len(seq))
    IN  [k \in 1..(hi - lo) |-> seq[lo + k]]

\* the indices seq[start:stop] reads
SliceIndices(seq, start, stop) ==
    { k \in 0..(Len(seq) - 1) : start <= k /\ k < stop }

\* a reshape in column-major order
ReshapeColumnMajor(flat, ysize, xsize) ==
    [r \in 0..(ysize - 1) |-> [c \in 0..(xsize - 1) |-> flat[c * ysize + r + 1]]]

\* flat.reshape((ysize, xsize)), row-major
Reshape(flat, ysize, xsize) ==
    [r \in 0..(ysize - 1) |-> [c \in 0..(xsize - 1) |-> flat[r * xsize + c + 1]]]

\* reshape raises ValueError unless the sizes agree
Reshapes(flat, ysize, xsize) == ysize >= 0 /\ xsize >= 0 /\ Len(flat) = ysize * xsize

Column(rows, name) == [k \in 1..Len(rows) |-> rows[k][name]]

TOAColumn(rows, j) == [k \in 1..Len(rows) |-> rows[k].TOA[j]]

\* Block.raa: the relative azimuth given, or derived from the absolute ones
BlockRaa(relaz, raa, saa, vaa) ==
    IF relaz THEN raa
    ELSE IF isnan(saa) \/ isnan(vaa) THEN NaN
    ELSE LET d == IF saa >= vaa THEN saa - vaa ELSE vaa - saa
         IN  IF d > 180 THEN 360 - d ELSE d

-----------------------------------------------------------------------------
(* read_block *)

\* what a call returns: a Block, or the exception it raised.  read is the set
\* of CSV rows (product lines) the call read; steps holds the successive
\* values of block.bitmask, each with the flag and the 0/1 raster added
Returned(block, read, steps) ==
    [ok |-> TRUE, error |-> "", block |-> block, read |-> read, steps |-> steps]

Raises(e) == [ok |-> FALSE, error |-> e, block |-> <<>>, read |-> {}, steps |-> <<>>]

Pixels(ysize, xsize) == (0..(ysize - 1)) \X (0..(xsize - 1))

Zeros(ysize, xsize) == [r \in 0..(ysize - 1) |-> [c \in 0..(xsize - 1) |-> 0]]

\* bitmask = flag * raster: an assignment where an addition was meant
AccumulateAssign(bitmask, flag, raster) ==
    [r \in DOMAIN bitmask |-> [c \in DOMAIN bitmask[r] |->
        (flag * raster[r][c]) % 65536]]

\* bitmask += flag * raster, in uint16
Accumulate(bitmask, flag, raster) ==
    [r \in DOMAIN bitmask |-> [c \in DOMAIN bitmask[r] |->
        Uint16(bitmask[r][c] + flag * raster[r][c])]]

\* block.F0[:,:,iband] = self.F0[self.F0_band_names[band]][di], for each band
\* asked for
BlockF0(s, di, bands) ==
    [r \in DOMAIN di |-> [c \in DOMAIN di[r] |-> [k \in 1..Len(bands) |->
        Lookup(s.F0, s.F0_band_names[bands[k]], di)[r][c]]]]

\* block.wavelen[:,:,iband]
\*     = self.detector_wavelength[self.wav_band_names[band]][di],
\* into an array of float32
BlockWavelen(s, di, bands) ==
    [r \in DOMAIN di |-> [c \in DOMAIN di[r] |-> [k \in 1..Len(bands) |->
        Float32(Lookup(s.detector_wavelength, s.wav_band_names[bands[k]], di)[r][c])]]]

\* block.wavelen[:,:,iband] = float(band), into an array of float32
NominalWavelen(ysize, xsize, bands) ==
    [r \in 0..(ysize - 1) |-> [c \in 0..(xsize - 1) |-> [k \in 1..Len(bands) |->
        Float32(float(bands[k]))]]]

\* invalid = np.isnan(block.raa); invalid |= TOA[:,:,0] < 0
AsciiInvalid(raa, toa0) == IF isnan(raa) \/ LessThanZero(toa0) THEN 1 ELSE 0

\* sl = slice(offset[0]*xsize, (offset[0]+ysize)*xsize)
SliceStart(offset, ysize, xsize) == offset[1] * xsize

SliceStop(offset, ysize, xsize) == (offset[1] + ysize) * xsize

\* Level1_ASCII.read_block
AsciiReadBlock(s, size, offset, bands) ==
    LET ysize == size[1]
        xsize == size[2]
        start == SliceStart(offset, ysize, xsize)
        stop == SliceStop(offset, ysize, xsize)
        rows == Slice(s.csv, start, stop)
        field(name) == Reshape(Column(rows, name), ysize, xsize)
        toa(j) == Reshape(TOAColumn(rows, j), ysize, xsize)
    IN
    IF ~ Reshapes(rows, ysize, xsize) THEN Raises("ValueError")
    ELSE IF \E k \in 1..Len(bands) : bands[k] \notin DOMAIN s.band_names
    THEN Raises("KeyError")
    ELSE IF s.TOAR \notin {"reflectance", "radiance"} THEN Raises("Exception")
    ELSE
      LET TOA == [r \in 0..(ysize - 1) |-> [c \in 0..(xsize - 1) |->
                    [k \in 1..Len(bands) |-> toa(s.band_names[bands[k]])[r][c]]]]
          raa == [r \in 0..(ysize - 1) |-> [c \in 0..(xsize - 1) |->
                    BlockRaa(s.relative_azimuth, field("RAA")[r][c],
                             field("SAA")[r][c], field("VAA")[r][c])]]
          invalid == [r \in 0..(ysize - 1) |-> [c \in 0..(xsize - 1) |->
                        AsciiInvalid(raa[r][c], TOA[r][c][1])]]
          bitmask == Accumulate(Zeros(ysize, xsize), L1_INVALID, invalid)
          smile == s.sensor \in MerisSensors
          di == Reshape(Column(rows, "DETECTOR"), ysize, xsize)
      IN  Returned(
            [offset |-> offset, size |-> size, bands |-> bands,
             latitude |-> field("LAT"), longitude |-> field("LON"),
             sza |-> field("SZA"), vza |-> field("VZA"), raa |-> raa,
             TOA |-> TOA, quantity |-> IF s.TOAR = "reflectance" THEN "Rtoa" ELSE "Ltoa",
             F0 |-> IF smile THEN BlockF0(s, di, bands) ELSE Unassigned,
             wavelen |-> IF smile THEN BlockWavelen(s, di, bands)
                         ELSE NominalWavelen(ysize, xsize, bands),
             ozone |-> field("OZONE"),
             bitmask |-> bitmask],
            SliceIndices(s.csv, start, stop),
            << [flag |-> L1_INVALID, raster |-> invalid, bitmask |-> bitmask] >>)

\* a read that goes on from where the handle stands
SeekFromHandle(pos, yoffset) == pos

\* the line read_as_array starts at: the yoffset asked for, wherever the
\* handle stands
SeekLine(pos, yoffset) == yoffset

\* read_as_array succeeds on a window inside the product that holds no
\* unreadable line
Readable(f, xoffset, yoffset, width, height) ==
    /\ 0 <= xoffset /\ 0 <= yoffset /\ 0 <= width /\ 0 <= height
    /\ xoffset + width <= f.width
    /\ yoffset + height <= f.nrows
    /\ \A y \in yoffset..(yoffset + height - 1) : y \notin f.bad

\* self.prod.get_band(band_name).read_as_array(xoffset, yoffset, width, height)
read_as_array(f, name, xoffset, yoffset, width, height) ==
    [r \in 0..(height - 1) |-> [c \in 0..(width - 1) |->
        f.raster[yoffset + r + 1][xoffset + c + 1][name]]]

\* the expressions read_block passes to read_bitmask
BitmaskExpr(expr, flags) ==
    IF expr = "l1_flags.LAND_OCEAN" THEN "LAND_OCEAN" \in flags
    ELSE flags \cap {"INVALID", "SUSPECT", "COSMETIC"} # {}

\* Level1_MERIS.read_bitmask
read_bitmask(f, l1_flags, expr) ==
    [r \in DOMAIN l1_flags |-> [c \in DOMAIN l1_flags[r] |->
        IF BitmaskExpr(expr, l1_flags[r][c]) THEN 1 ELSE 0]]

\* block.bitmask = LAND*...; block.bitmask += L1_INVALID*...
MerisBitmaskSteps(land, invalid) ==
    LET b1 == [r \in DOMAIN land |-> [c \in DOMAIN land[r] |-> Uint16(LAND * land[r][c])]]
        b2 == Accumulate(b1, L1_INVALID, invalid)
    IN  << [flag |-> LAND, raster |-> land, bitmask |-> b1],
           [flag |-> L1_INVALID, raster |-> invalid, bitmask |-> b2] >>

\* Level1_MERIS.read_block, with the handle at line pos
MerisReadBlock(s, f, pos, size, offset, bands) ==
    LET ysize == size[1]
        xsize == size[2]
        yoffset == SeekLine(pos, offset[1] + s.sline)
        xoffset == offset[2]
        read_band(name) == read_as_array(f, name, xoffset, yoffset, xsize, ysize)
    IN
    IF ~ Readable(f, xoffset, yoffset, xsize, ysize) THEN Raises("EPRError")
    ELSE IF \E k \in 1..Len(bands) : bands[k] \notin DOMAIN s.band_names
    THEN Raises("KeyError")
    ELSE
      LET Ltoa == [r \in 0..(ysize - 1) |-> [c \in 0..(xsize - 1) |->
                    [k \in 1..Len(bands) |->
                        read_band("Radiance")[r][c][s.band_names[bands[k]]]]]]
          flags == read_band("l1_flags")
          steps == MerisBitmaskSteps(
                      read_bitmask(f, flags, "l1_flags.LAND_OCEAN"),
                      read_bitmask(f, flags,
                        "(l1_flags.INVALID) OR (l1_flags.SUSPECT) OR (l1_flags.COSMETIC)"))
          raa == [r \in 0..(ysize - 1) |-> [c \in 0..(xsize - 1) |->
                    BlockRaa(FALSE, NaN, read_band("sun_azimuth")[r][c],
                             read_band("view_azimuth")[r][c])]]
      IN  Returned(
            [offset |-> offset, size |-> size, bands |-> bands,
             latitude |-> read_band("latitude"), longitude |-> read_band("longitude"),
             sza |-> read_band("sun_zenith"), vza |-> read_band("view_zenith"),
             raa |-> raa,
             TOA |-> Ltoa, quantity |-> "Ltoa",
             F0 |-> BlockF0(s, read_band("detector_index"), bands),
             wavelen |-> BlockWavelen(s, read_band("detector_index"), bands),
             ozone |-> read_band("ozone"),
             bitmask |-> steps[2].bitmask],
            yoffset..(yoffset + ysize - 1),
            steps)

\* where a read_block call leaves the handle
PosAfter(s, pos, size, offset) ==
    IF s.kind = "meris" THEN SeekLine(pos, offset[1] + s.sline) + size[1] ELSE pos

\* read_block of the Source
read_block(s, f, pos, size, offset, bands) ==
    IF s.kind = "ascii" THEN AsciiReadBlock(s, size, offset, bands)
    ELSE MerisReadBlock(s, f, pos, size, offset, bands)

-----------------------------------------------------------------------------
(* blocks() *)

\* ceil(a / b), for b > 0
Ceil(a, b) == -((-a) \div b)

\* a block count rounded down instead of up
nblocksFloor(s) == s.height \div s.blocksize

\* nblocks = int(np.ceil(float(self.height)/self.blocksize))
nblocks(s) == Ceil(s.height, s.blocksize)

\* size = (ysize, xsize) of block iblock
TileSize(s, iblock) ==
    << IF iblock = nblocks(s) - 1
       THEN s.height - (nblocks(s) - 1) * s.blocksize
       ELSE s.blocksize,
       s.width >>

\* offset = (yoffset, xoffset) of block iblock
TileOffset(s, iblock) == << iblock * s.blocksize, 0 >>

\* the generator objects a caller holds
Gens == {"g1", "g2"}

NoGenerator ==
    [state |-> "none", bands |-> <<>>, iblock |-> 0, yielded |-> <<>>, error |-> ""]

\* a cursor kept on the Source: a new iteration goes on where the furthest
\* one stands
CursorOnSource(g) ==
    LET others == { gen[h].iblock : h \in Gens \ {g} }
    IN  CHOOSE m \in others : \A x \in others : x <= m

\* for iblock in xrange(nblocks): the loop variable of a new generator
xrangeStart(g) == 0

\* a generator that swallows the exception and goes on with the next tile
GeneratorSkips(gr, e) == [gr EXCEPT !.state = "suspended", !.iblock = @ + 1]

\* an exception raised in the generator's frame ends the generator
GeneratorRaised(gr, e) == [gr EXCEPT !.state = "raised", !.error = e]

-----------------------------------------------------------------------------
(* The state machine *)

Init ==
    /\ \E run \in Runs : args = run[1] /\ file = run[2] /\ asked = run[3]
    /\ src = [status |-> "unconstructed", kind |-> args.kind]
    /\ prodPos = 0
    /\ gen = [g \in Gens |-> NoGenerator]
    /\ last = <<>>

\* Level1_ASCII(...) or Level1_MERIS(...)
Construct ==
    /\ src.status = "unconstructed"
    /\ src' = IF args.kind = "ascii" THEN AsciiInit(args, file) ELSE MerisInit(args, file)
    /\ UNCHANGED <<args, file, prodPos, gen, last, asked>>

\* source.blocks(bands): a new generator object; its body has not run yet
Blocks(g, bands) ==
    /\ src.status = "ok"
    /\ gen' = [gen EXCEPT ![g] =
                 [state |-> "created", bands |-> bands, iblock |-> xrangeStart(g),
                  yielded |-> <<>>, error |-> ""]]
    /\ UNCHANGED <<args, file, src, prodPos, last, asked>>

\* next(generator): runs the body to its next yield, to its end, or to an
\* exception
GenNext(g) ==
    /\ src.status = "ok"
    /\ gen[g].state \in {"created", "suspended"}
    /\ LET gr == gen[g]
           size == TileSize(src, gr.iblock)
           offset == TileOffset(src, gr.iblock)
           res == read_block(src, file, prodPos, size, offset, gr.bands)
       IN  IF gr.iblock >= nblocks(src)
           THEN /\ gen' = [gen EXCEPT ![g].state = "exhausted"]
                /\ prodPos' = prodPos
           ELSE /\ gen' = [gen EXCEPT ![g] =
                            IF res.ok
                            THEN [gr EXCEPT !.state = "suspended",
                                            !.iblock = @ + 1,
                                            !.yielded = Append(@, res)]
                            ELSE GeneratorRaised(gr, res.error)]
                /\ prodPos' = PosAfter(src, prodPos, size, offset)
    /\ UNCHANGED <<args, file, src, last, asked>>

\* source.read_block((blocksize, width), (yoffset, 0), bands), called
\* directly: a window of blocksize rows, anywhere
ReadBlockCall(yoffset, bands) ==
    /\ src.status = "ok"
    /\ LET size == <<src.blocksize, src.width>>
           offset == <<yoffset, 0>>
       IN  /\ last' = [size |-> size, offset |-> offset, bands |-> bands,
                       result |-> read_block(src, file, prodPos, size, offset, bands)]
           /\ prodPos' = PosAfter(src, prodPos, size, offset)
    /\ UNCHANGED <<args, file, src, gen, asked>>

Next ==
    \/ Construct
    \/ \E g \in Gens : Blocks(g, asked)
    \/ \E g \in Gens : GenNext(g)
    \/ \E yoffset \in 0..(MaxRows - 1) : ReadBlockCall(yoffset, asked)

Spec == Init /\ [][Next]_vars

-----------------------------------------------------------------------------
(* What the properties below speak of *)

Constructed == src.status = "ok"

\* the generators that have been created
Live == { g \in Gens : gen[g].state # "none" }

\* the Block of the k-th yield of generator g
Yield(g, k) == gen[g].yielded[k].block

\* the per-pixel fields of a Block
PixelFields == {"latitude", "longitude", "sza", "vza", "raa", "TOA", "ozone", "bitmask"}

\* the same Source with a block size that makes the whole sub-window one tile
OneTile(s) == [s EXCEPT !.blocksize = Max(s.height, 1)]

\* the result of reading the sub-window as one tile
WholeRead(bands) ==
    read_block(OneTile(src), file, 0, TileSize(OneTile(src), 0),
               TileOffset(OneTile(src), 0), bands)

\* the rows of the table (lines of the product) of the active sub-window
WindowRows ==
    IF src.kind = "ascii" THEN 0..(src.height * src.width - 1)
    ELSE src.sline..(src.sline + src.height - 1)

-----------------------------------------------------------------------------
(* C1 *)

\* C1: for H >= 0 and B > 0, the k-th tile blocks() requests has offset
\* ((k-1)*B, 0) and size (min(B, H - (k-1)*B), W), with at least one row and
\* starting where the tile before it ends; an iteration that runs to its end
\* has requested exactly ceil(H/B) tiles, whose rows sum to H (none when H = 0).
C1_TilesPartitionHeight ==
    Constructed /\ src.height >= 0 =>
      \A g \in Live :
        LET H == src.height
            B == src.blocksize
            n == Len(gen[g].yielded)
        IN  /\ \A k \in 1..n :
                 /\ Yield(g, k).offset = << (k - 1) * B, 0 >>
                 /\ Yield(g, k).size = << Min(B, H - (k - 1) * B), src.width >>
                 /\ Yield(g, k).size[1] >= 1
                 /\ k > 1 => Yield(g, k).offset[1]
                               = Yield(g, k - 1).offset[1] + Yield(g, k - 1).size[1]
            /\ gen[g].state = "exhausted" =>
                 /\ (n - 1) * B < H \/ (n = 0 /\ H = 0)
                 /\ H <= n * B
                 /\ (n = 0 /\ H = 0) \/ (n >= 1 /\ Yield(g, n).offset[1] + Yield(g, n).size[1] = H)

\* C1 witness: an iteration has run to its end over a height that the block
\* size does not divide: its last tile is shorter than the others
C1_Witness ==
    /\ Constructed
    /\ \E g \in Live :
         /\ gen[g].state = "exhausted"
         /\ Len(gen[g].yielded) >= 2
         /\ Yield(g, Len(gen[g].yielded)).size[1] < src.blocksize

-----------------------------------------------------------------------------
(* C2 *)

\* C2: every Block an iteration yields holds, for every field and every
\* pixel, the value that reading the sub-window as one tile (block size >=
\* height) holds at the same absolute coordinate (offset row + local row,
\* column); the tiles of an iteration read disjoint rows of the table (lines
\* of the product), and an iteration that runs to its end has read each row
\* of the sub-window exactly once.
C2_TilesAgreeWithOneTile ==
    Constructed /\ src.height >= 1 =>
      \A g \in Live :
        LET whole == WholeRead(gen[g].bands)
            n == Len(gen[g].yielded)
        IN  whole.ok =>
              /\ \A k \in 1..n : \A px \in Pixels(Yield(g, k).size[1], Yield(g, k).size[2]) :
                   \A fld \in PixelFields :
                     Yield(g, k)[fld][px[1]][px[2]]
                       = whole.block[fld][Yield(g, k).offset[1] + px[1]][px[2]]
              /\ \A k \in 1..n : \A j \in 1..n :
                   k # j => gen[g].yielded[k].read \cap gen[g].yielded[j].read = {}
              /\ \A k \in 1..n : gen[g].yielded[k].read \subseteq WindowRows
              /\ gen[g].state = "exhausted" =>
                   UNION { gen[g].yielded[k].read : k \in 1..n } = WindowRows

\* C2 witness: an iteration of several tiles, each of several rows and
\* columns, has run to its end over a sub-window that one tile can read
C2_Witness ==
    /\ Constructed
    /\ src.height >= 1
    /\ \E g \in Live :
         /\ gen[g].state = "exhausted"
         /\ Len(gen[g].yielded) >= 2
         /\ Yield(g, 1).size[1] >= 2 /\ Yield(g, 1).size[2] >= 2
         /\ WholeRead(gen[g].bands).ok

-----------------------------------------------------------------------------
(* C3 *)

\* C3: a call of blocks() gives an iteration that has yielded nothing and
\* whose first yield is tile 0, whatever the other iterations on the Source
\* have consumed; each further yield is the next tile; a step of one
\* iteration leaves the others where they are; and an iteration ends, unless
\* a read fails, only after tile ceil(H/B)-1.
C3_FreshIterationPerCall ==
    [][\A g \in Gens :
         gen'[g] # gen[g] =>
           /\ \A h \in Gens \ {g} : gen'[h] = gen[h]
           /\ gen'[g].state = "created" => gen'[g].yielded = <<>>
           /\ gen[g].state = "created" /\ gen'[g].state = "suspended" =>
                /\ Len(gen'[g].yielded) = 1
                /\ gen'[g].yielded[1].block.offset = <<0, 0>>
           /\ gen[g].state = "suspended" /\ gen'[g].state = "suspended" =>
                /\ Len(gen'[g].yielded) = Len(gen[g].yielded) + 1
                /\ \A k \in 1..Len(gen[g].yielded) : gen'[g].yielded[k] = gen[g].yielded[k]
                /\ gen'[g].yielded[Len(gen'[g].yielded)].block.offset
                     = << Len(gen[g].yielded) * src.blocksize, 0 >>
           /\ gen'[g].state = "exhausted" =>
                /\ gen'[g].yielded = gen[g].yielded
                /\ Len(gen[g].yielded) * src.blocksize >= src.height
      ]_vars

\* C3 witness: one iteration has run to its end over several tiles, and
\* another one on the same Source has yielded its first tile only
C3_Witness ==
    /\ Constructed
    /\ \E g \in Live, h \in Live :
         /\ g # h
         /\ gen[g].state = "exhausted" /\ Len(gen[g].yielded) >= 2
         /\ gen[h].state = "suspended" /\ Len(gen[h].yielded) = 1

-----------------------------------------------------------------------------
(* C4 *)

\* the Source as its constructor leaves it
AsConstructed ==
    IF args.kind = "ascii" THEN AsciiInit(args, file) ELSE MerisInit(args, file)

\* C4: whatever calls came before it, a read_block call returns what the
\* same call returns as the first call on the Source (the handle at its
\* start), be it made directly or by an iteration; and the Source keeps every
\* attribute its constructor gave it.
C4_ReadBlockIndependentOfHistory ==
    Constructed =>
      /\ src = AsConstructed
      /\ last # <<>> =>
           last.result = read_block(src, file, 0, last.size, last.offset, last.bands)
      /\ \A g \in Live : \A k \in 1..Len(gen[g].yielded) :
           gen[g].yielded[k]
             = read_block(src, file, 0, Yield(g, k).size, Yield(g, k).offset, gen[g].bands)

\* C4 witness: on a binary source, whose handle moves with every read, a
\* direct call has returned a Block and an iteration has yielded two
C4_Witness ==
    /\ Constructed
    /\ src.kind = "meris"
    /\ last # <<>> /\ last.result.ok
    /\ \E g \in Live : Len(gen[g].yielded) >= 2
    /\ prodPos > 0

-----------------------------------------------------------------------------
(* C5 *)

\* C5: the constructor of a tabular source whose file has a row count that
\* is no multiple of square raises: no Source comes to exist, so none of
\* height floor(nrows/square) does.
C5_RowCountMultipleOfSquare ==
    (args.kind = "ascii" /\ file.nrows % args.square # 0 /\ src.status # "unconstructed")
      => /\ src.status \in {"AssertionError", "KeyError"}
         /\ Live = {}
         /\ last = <<>>

\* C5 witness: the constructor has raised on its check of the row count
C5_Witness ==
    /\ args.kind = "ascii"
    /\ file.nrows % args.square # 0
    /\ src.status = "AssertionError"

-----------------------------------------------------------------------------
(* C6 *)

\* C6: every binary source that its constructor returns has a sub-window
\* inside the product: it starts at a line of the product, its height is not
\* negative and it ends no later than the product's last line.
C6_SubWindowInsideProduct ==
    (Constructed /\ src.kind = "meris") =>
      /\ 0 <= src.sline
      /\ 0 <= src.height
      /\ src.sline + src.height <= src.totalheight

-----------------------------------------------------------------------------
(* C7 *)

\* the tabular rows a pixel of a Block was read from hold a NaN in a geometry
\* column or in a requested band
HasNaN(block, r, c) ==
    \/ isnan(block.latitude[r][c]) \/ isnan(block.longitude[r][c])
    \/ isnan(block.sza[r][c]) \/ isnan(block.vza[r][c])
    \/ isnan(block.raa[r][c])
    \/ \E k \in 1..Len(block.bands) : isnan(block.TOA[r][c][k])

\* C7: in every Block of a tabular source, a pixel has the L1_INVALID bit if
\* and only if its latitude, longitude, solar zenith, view zenith, azimuth or
\* the signal of a requested band is NaN, or the signal of the first
\* requested band is negative.
C7_InvalidBitOnAnyNaN ==
    (Constructed /\ src.kind = "ascii") =>
      \A g \in Live : \A k \in 1..Len(gen[g].yielded) :
        \A px \in Pixels(Yield(g, k).size[1], Yield(g, k).size[2]) :
          BitSet(Yield(g, k).bitmask[px[1]][px[2]], L1_INVALID)
            <=> (\/ HasNaN(Yield(g, k), px[1], px[2])
                 \/ LessThanZero(Yield(g, k).TOA[px[1]][px[2]][1]))

-----------------------------------------------------------------------------
(* C8 *)

\* C8: when read_block fails for a tile, the iteration ends there with that
\* exception and yields nothing more; what an iteration has yielded is always
\* tiles 0..k-1 in order, none left out, the next tile being k.
C8_FailureEndsIteration ==
    [][\A g \in Gens :
         /\ gen'[g].state # "none" =>
              /\ gen'[g].iblock = Len(gen'[g].yielded)
              /\ \A k \in 1..Len(gen'[g].yielded) :
                   gen'[g].yielded[k].block.offset = << (k - 1) * src'.blocksize, 0 >>
              /\ gen'[g].state = "raised" <=> gen'[g].error # ""
         /\ (gen'[g] # gen[g] /\ gen'[g].state = "suspended") =>
              read_block(src, file, prodPos, TileSize(src, gen[g].iblock),
                         TileOffset(src, gen[g].iblock), gen[g].bands).ok
         /\ gen[g].state = "raised" =>
              \/ gen'[g] = gen[g]
              \/ gen'[g].state = "created"
      ]_vars

\* C8 witness: an iteration has yielded a tile and then ended on a read that
\* failed, while rows of the sub-window were still to come
C8_Witness ==
    /\ Constructed
    /\ \E g \in Live :
         /\ gen[g].state = "raised"
         /\ Len(gen[g].yielded) >= 1
         /\ gen[g].iblock + 1 < nblocks(src)

-----------------------------------------------------------------------------
(* C9 *)

\* C9: the constructor of a tabular source raises on a sensor it does not
\* know and on a mode other than radiance and reflectance, so that no
\* read_block of a Source it returned fails for the mode.
C9_ConfigurationCheckedAtConstruction ==
    (args.kind = "ascii" /\ src.status # "unconstructed") =>
      /\ (args.sensor \notin KnownSensors
            \/ args.TOAR \notin {"radiance", "reflectance"}) => ~ Constructed
      /\ \A g \in Live : gen[g].error # "Exception"
      /\ last # <<>> => last.result.error # "Exception"

-----------------------------------------------------------------------------
(* C10 *)

\* the flag-times-raster values a read has added up to step k, ORed
RECURSIVE OrOfSteps(_, _, _, _)
OrOfSteps(steps, k, r, c) ==
    IF k = 0 THEN 0
    ELSE BitOr(OrOfSteps(steps, k - 1, r, c), steps[k].flag * steps[k].raster[r][c])

\* the results of all the read_block calls so far that returned a Block
Reads ==
    UNION { { gen[g].yielded[k] : k \in 1..Len(gen[g].yielded) } : g \in Live }
    \cup (IF last # <<>> /\ last.result.ok THEN {last.result} ELSE {})

\* the single-bit flags
FlagBits == {LAND, L1_INVALID}

\* C10: at every step of read_block's accumulation, for every pixel, the
\* flag rasters being 0 or 1: the bitmask is the bitwise OR of the flags
\* added so far, each times its raster; every bit set before the step is set
\* after it (the invalid-pixel bit is never cleared); and the Block carries
\* the bitmask of the last step.
C10_BitmaskIsOrOfFlags ==
    Constructed =>
      \A res \in Reads :
        \A px \in Pixels(res.block.size[1], res.block.size[2]) :
          LET r == px[1]
              c == px[2]
              n == Len(res.steps)
          IN  /\ \A k \in 1..n :
                   /\ res.steps[k].raster[r][c] \in {0, 1}
                   /\ res.steps[k].flag \in FlagBits
                   /\ res.steps[k].bitmask[r][c] = OrOfSteps(res.steps, k, r, c)
                   /\ k > 1 => \A b \in FlagBits :
                        BitSet(res.steps[k - 1].bitmask[r][c], b)
                          => BitSet(res.steps[k].bitmask[r][c], b)
              /\ res.block.bitmask[r][c] = res.steps[n].bitmask[r][c]

\* C10 witness: a Block of a binary source holds a pixel that is both land
\* and invalid: the second flag was added to a bitmask that held the first
C10_Witness ==
    /\ Constructed
    /\ \E res \in Reads :
         /\ Len(res.steps) = 2
         /\ \E px \in Pixels(res.block.size[1], res.block.size[2]) :
              /\ res.steps[1].raster[px[1]][px[2]] = 1
              /\ res.steps[2].raster[px[1]][px[2]] = 1
              /\ res.block.bitmask[px[1]][px[2]] = LAND + L1_INVALID

-----------------------------------------------------------------------------
(* C11 *)

\* the detector index the file holds for pixel (r, c) of a Block
DetectorIndex(block, r, c) ==
    IF src.kind = "ascii"
    THEN file.rows[(block.offset[1] + r) * block.size[2] + c + 1].DETECTOR
    ELSE file.raster[src.sline + block.offset[1] + r + 1][block.offset[2] + c + 1].detector_index

\* the entry of a sensor's table for a band and a detector: the tables hold
\* one column per band of the sensor, in the order of BANDS_MERIS
TableEntry(table, prefix, band, di) ==
    table[ColumnNames(prefix, BANDS_MERIS)[band]][di + 1]

\* the tables of a sensor of the MERIS family
FluxTable(sensor) ==
    IF sensor = "MERIS_FR" THEN sun_spectral_flux_fr ELSE sun_spectral_flux_rr

WavelengthTable(sensor) ==
    IF sensor = "MERIS_FR" THEN central_wavelen_fr ELSE central_wavelen_rr

\* C11: for every Block read, every pixel (y, x) and every band asked for, at
\* position k: on a sensor of the MERIS family, wavelen[y,x,k] and F0[y,x,k]
\* are the entries of the sensor's tables for that band at the pixel's
\* detector index (the wavelength as float32 holds it); on any other sensor,
\* wavelen[y,x,k] is the band's nominal value and F0 is assigned, with one
\* value per band that is a number and the same at every pixel.
C11_WavelengthAndFluxFromTables ==
    Constructed =>
      \A res \in Reads :
        LET b == res.block IN
        \A px \in Pixels(b.size[1], b.size[2]) : \A k \in 1..Len(b.bands) :
          LET r == px[1]
              c == px[2]
              di == DetectorIndex(b, r, c)
          IN  IF src.sensor \in MerisSensors
              THEN /\ b.wavelen[r][c][k]
                        = Float32(TableEntry(WavelengthTable(src.sensor),
                                             "lam_band", b.bands[k], di))
                   /\ b.F0[r][c][k]
                        = TableEntry(FluxTable(src.sensor), "E0_band", b.bands[k], di)
              ELSE /\ b.wavelen[r][c][k] = float(b.bands[k])
                   /\ b.F0 # Unassigned
                   /\ ~ isnan(b.F0[r][c][k])
                   /\ \A qx \in Pixels(b.size[1], b.size[2]) :
                        b.F0[qx[1]][qx[2]][k] = b.F0[r][c][k]

====
